---- MODULE Spec2Model ----
(***************************************************************************)
(* Model of the powder bootstrap front end: the lexer (lexer.rs), the      *)
(* TokenStream cursor and the recursive-descent parser (parser.rs) and the *)
(* operator tables of the AST (ast.rs).                                    *)
(*                                                                         *)
(* Three state machines share the module:                                  *)
(*   SpecLex     lex() run one scanning-loop iteration per step            *)
(*   SpecStream  arbitrary calls of the TokenStream API on a stream and    *)
(*               on a sub-stream made from it                              *)
(*   SpecParse   parse() run one definition / block statement per step     *)
(*   SpecExpr    parse_expression() applied to a token sequence, as the    *)
(*               unit test of parser.rs does                               *)
(***************************************************************************)
EXTENDS Integers, Sequences, FiniteSets, TLC

VARIABLES
    code,              \* the source text: a sequence of characters
    current_position,  \* LexerState::current_position
    tokens,            \* lex: the Vec<Token> built so far; parse: its argument
    lex_pc,            \* "run" | "ok" | "err" | "panic"
    lex_err,           \* the character of lex's Err, as <<c>>, or <<>>
    overflow_checks,   \* the build: TRUE panics on integer overflow, FALSE wraps
    streams,           \* SpecStream: [main |-> TokenStream, sub |-> TokenStream]
    call,              \* SpecStream: the last TokenStream call and its outcome
    token_stream,      \* parse: the TokenStream over the stripped tokens
    definitions,       \* parse: Vec<Definition>
    parse_pc,          \* "start" | "file" | "block" | "ok" | "err" | "panic" | "idle"
    parse_msg,         \* the message of parse's Err
    function_name,     \* parse_definition: the function being parsed, <<name>> or <<>>
    statements,        \* parse_block: Vec<Statement>
    def_start,         \* the cursor at which the running parse_definition began
    stmt_call,         \* the last parse_statement call: its cursor and its Result
    expr_result        \* SpecExpr: the Result of parse_expression, or not yet called

vars ==
    << code, current_position, tokens, lex_pc, lex_err, overflow_checks,
       streams, call, token_stream, definitions, parse_pc, parse_msg, function_name,
       statements, def_start, stmt_call, expr_result >>

lexVars == << code, current_position, tokens, lex_pc, lex_err >>
streamVars == << overflow_checks, streams, call >>
parseVars ==
    << token_stream, definitions, parse_pc, parse_msg, function_name, statements,
       def_start, stmt_call >>

(***************************************************************************)
(* Bounds of the model.                                                    *)
(***************************************************************************)
MaxSourceLen == 4
MaxStreamLen == 3
MaxCalls == 4
UsizeBits == 6
MaxTail == 3
MaxExprLen == 5

(***************************************************************************)
(* Option<T> is a sequence of length at most one.                          *)
(***************************************************************************)
None == << >>
Some(v) == << v >>

\* The sequences over S of length at most n.
SeqsUpTo(S, n) == UNION { [ 1 .. k -> S ] : k \in 0 .. n }

(***************************************************************************)
(* Characters.  A character is a one-character string; the two characters  *)
(* outside ASCII are named by their code points: U+00E9 (an alphanumeric   *)
(* letter, two bytes in UTF-8) and U+00A0 (no-break space: White_Space,    *)
(* two bytes in UTF-8).                                                    *)
(***************************************************************************)
AsciiLower ==
    { "a", "b", "c", "d", "e", "f", "g", "h", "i", "j", "k", "l", "m",
      "n", "o", "p", "q", "r", "s", "t", "u", "v", "w", "x", "y", "z" }
AsciiUpper ==
    { "A", "B", "C", "D", "E", "F", "G", "H", "I", "J", "K", "L", "M",
      "N", "O", "P", "Q", "R", "S", "T", "U", "V", "W", "X", "Y", "Z" }
AsciiDigit == { "0", "1", "2", "3", "4", "5", "6", "7", "8", "9" }
TwoByteChars == { "U+00E9", "U+00A0" }

len_utf8(c) == IF c \in TwoByteChars THEN 2 ELSE 1
is_whitespace(c) == c \in { " ", "\n", "\t", "U+00A0" }
is_ascii_digit(c) == c \in AsciiDigit
is_alphanumeric(c) == c \in AsciiLower \cup AsciiUpper \cup AsciiDigit \cup { "U+00E9" }
is_word_start(c) == c \in AsciiLower \cup AsciiUpper \cup { "_" }
is_word_char(c) == is_alphanumeric(c) \/ c = "_"

(***************************************************************************)
(* &str: the text is held as its characters; offsets into it are byte      *)
(* offsets.  ByteOffset(s, i) is the byte offset of the character with     *)
(* (zero-based) index i.                                                   *)
(***************************************************************************)
RECURSIVE ByteOffset(_, _)
ByteOffset(s, i) ==
    IF i = 0 THEN 0 ELSE ByteOffset(s, i - 1) + len_utf8(s[i])

str_len(s) == ByteOffset(s, Len(s))

is_char_boundary(s, b) == \E i \in 0 .. Len(s) : ByteOffset(s, i) = b

CharIndex(s, b) == CHOOSE i \in 0 .. Len(s) : ByteOffset(s, i) = b

\* s.get(a .. b): None unless a <= b <= len and both lie on character boundaries.
str_get(s, a, b) ==
    IF a <= b /\ b <= str_len(s) /\ is_char_boundary(s, a) /\ is_char_boundary(s, b)
    THEN Some(SubSeq(s, CharIndex(s, a) + 1, CharIndex(s, b)))
    ELSE None

\* s.chars().nth(n)
chars_nth(s, n) == IF n < Len(s) THEN Some(s[n + 1]) ELSE None

(***************************************************************************)
(* TokenType and its tables.                                               *)
(***************************************************************************)
TokenType ==
    { "Comment", "Function", "Const", "Var", "N64", "Identifer", "IntegerLiteral",
      "OpenParenthesis", "CloseParenthesis", "OpenBrace", "CloseBrace", "Colon",
      "Equals", "Semicolon", "Plus", "Minus", "Star", "Slash" }

from_keyword(string) ==
    CASE string = << "f", "u", "n", "c", "t", "i", "o", "n" >> -> Some("Function")
      [] string = << "c", "o", "n", "s", "t" >> -> Some("Const")
      [] string = << "v", "a", "r" >> -> Some("Var")
      [] string = << "n", "6", "4" >> -> Some("N64")
      [] OTHER -> None

from_symbol(symbol) ==
    CASE symbol = "(" -> Some("OpenParenthesis")
      [] symbol = ")" -> Some("CloseParenthesis")
      [] symbol = "{" -> Some("OpenBrace")
      [] symbol = "}" -> Some("CloseBrace")
      [] symbol = ":" -> Some("Colon")
      [] symbol = "=" -> Some("Equals")
      [] symbol = ";" -> Some("Semicolon")
      [] symbol = "+" -> Some("Plus")
      [] symbol = "-" -> Some("Minus")
      [] symbol = "*" -> Some("Star")
      [] symbol = "/" -> Some("Slash")
      [] OTHER -> None

\* Token { type_, start, end, code }: `code` is the one source text of the run.
Token(type_, start, end) == [ type_ |-> type_, start |-> start, end |-> end ]

\* Token::text: panics (None here) when the span is no substring of the code.
Token_text(src, token) == str_get(src, token.start, token.end)

(***************************************************************************)
(* LexerState.  A state is [code, current_position]; the operations that   *)
(* can panic return [panic, state].                                        *)
(***************************************************************************)
LexerState(src, position) == [ code |-> src, current_position |-> position ]

LexerState_is_end(st) == st.current_position >= str_len(st.code)

\* None stands for the panic "Invalid lexer position".
current_char(st) == chars_nth(st.code, st.current_position)

next_char(st, lookahead) == chars_nth(st.code, st.current_position + lookahead)

advance(st) == [ st EXCEPT !.current_position = @ + 1 ]

RECURSIVE skip_whitespace(_)
skip_whitespace(st) ==
    IF LexerState_is_end(st) THEN [ panic |-> FALSE, state |-> st ]
    ELSE IF current_char(st) = None THEN [ panic |-> TRUE, state |-> st ]
    ELSE IF is_whitespace(current_char(st)[1]) THEN skip_whitespace(advance(st))
    ELSE [ panic |-> FALSE, state |-> st ]

\* The scanning loop of next_of_kind; `kind` names the predicate.
Predicate(kind, c) ==
    IF kind = "word" THEN is_word_char(c) ELSE is_ascii_digit(c)

RECURSIVE next_of_kind_loop(_, _)
next_of_kind_loop(st, kind) ==
    IF LexerState_is_end(st) THEN [ panic |-> FALSE, state |-> st ]
    ELSE IF current_char(st) = None THEN [ panic |-> TRUE, state |-> st ]
    ELSE IF Predicate(kind, current_char(st)[1]) THEN next_of_kind_loop(advance(st), kind)
    ELSE [ panic |-> FALSE, state |-> st ]

\* next_of_kind: the loop, then the slice &self.code[start .. current_position],
\* which panics off a character boundary.  `text` is the slice.
next_of_kind(st, kind) ==
    LET start == st.current_position
        scanned == next_of_kind_loop(st, kind)
        slice == str_get(st.code, start, scanned.state.current_position)
    IN  IF scanned.panic \/ slice = None
        THEN [ panic |-> TRUE, state |-> scanned.state, text |-> << >> ]
        ELSE [ panic |-> FALSE, state |-> scanned.state, text |-> slice[1] ]

next_word(st) == next_of_kind(st, "word")

next_number_sequence(st) == next_of_kind(st, "number")

\* The comment loop of lex: while current_char() != '\n' { advance or break }.
RECURSIVE comment_loop(_)
comment_loop(st) ==
    IF current_char(st) = None THEN [ panic |-> TRUE, state |-> st ]
    ELSE IF current_char(st)[1] = "\n" THEN [ panic |-> FALSE, state |-> st ]
    ELSE IF LexerState_is_end(advance(st)) THEN [ panic |-> FALSE, state |-> advance(st) ]
    ELSE comment_loop(advance(st))

(***************************************************************************)
(* lex: one iteration of `while !state.is_end()`.  The outcome is          *)
(* [pc, state, tokens, err]: pc "run" goes back to the loop head, "ok" is  *)
(* the break after skip_whitespace, "err" the return of Err and "panic" a  *)
(* panic.                                                                  *)
(***************************************************************************)
LexOutcome(pc, st, toks, err) ==
    [ pc |-> pc, state |-> st, tokens |-> toks, err |-> err ]

\* A variant whose lone Slash gets the span start .. start.
lex_slash_empty_span(st, toks, logging) ==
    LET start == st.current_position
    IN  IF next_char(st, 1) = Some("/")
        THEN LET scanned == comment_loop(st)
                 end == scanned.state.current_position
             IN  IF scanned.panic
                    \/ (logging /\ str_get(st.code, start, end) = None)
                 THEN LexOutcome("panic", scanned.state, toks, None)
                 ELSE LexOutcome("run", scanned.state,
                                 Append(toks, Token("Comment", start, end)), None)
        ELSE LexOutcome("run", advance(st),
                        Append(toks, Token("Slash", start, start)), None)

\* '/' : a comment up to the end of the line, or a lone Slash.
lex_slash(st, toks, logging) ==
    LET start == st.current_position
    IN  IF next_char(st, 1) = Some("/")
        THEN LET scanned == comment_loop(st)
                 end == scanned.state.current_position
             IN  IF scanned.panic
                    \/ (logging /\ str_get(st.code, start, end) = None)
                 THEN LexOutcome("panic", scanned.state, toks, None)
                 ELSE LexOutcome("run", scanned.state,
                                 Append(toks, Token("Comment", start, end)), None)
        ELSE LexOutcome("run", advance(st),
                        Append(toks, Token("Slash", start, start + 1)), None)

\* 'a'..='z' | 'A'..='Z' | '_' : a keyword or an identifier.
lex_word(st, toks) ==
    LET start == st.current_position
        word == next_word(st)
        end == word.state.current_position
        keyword == from_keyword(word.text)
    IN  IF word.panic THEN LexOutcome("panic", word.state, toks, None)
        ELSE IF keyword # None
        THEN LexOutcome("run", word.state, Append(toks, Token(keyword[1], start, end)), None)
        ELSE LexOutcome("run", word.state, Append(toks, Token("Identifer", start, end)), None)

\* '0'..='9' : an integer literal.
lex_number(st, toks) ==
    LET start == st.current_position
        number == next_number_sequence(st)
        end == number.state.current_position
    IN  IF number.panic THEN LexOutcome("panic", number.state, toks, None)
        ELSE LexOutcome("run", number.state,
                        Append(toks, Token("IntegerLiteral", start, end)), None)

\* anything else: a single-character symbol, or Err.
lex_symbol(st, toks) ==
    LET start == st.current_position
        symbol_char == current_char(st)[1]
        after == advance(st)
        symbol_type == from_symbol(symbol_char)
    IN  IF symbol_type # None
        THEN LexOutcome("run", after,
                        Append(toks, Token(symbol_type[1], start, after.current_position)),
                        None)
        ELSE LexOutcome("err", after, toks, Some(symbol_char))

lex_iteration(st0, toks, logging) ==
    LET skipped == skip_whitespace(st0)
        st == skipped.state
    IN  IF skipped.panic THEN LexOutcome("panic", st, toks, None)
        ELSE IF LexerState_is_end(st) THEN LexOutcome("ok", st, toks, None)
        ELSE LET c == current_char(st)[1]
             IN  CASE c = "/" -> lex_slash(st, toks, logging)
                   [] is_word_start(c) -> lex_word(st, toks)
                   [] is_ascii_digit(c) -> lex_number(st, toks)
                   [] OTHER -> lex_symbol(st, toks)

(***************************************************************************)
(* SpecLex: lex on every source of at most MaxSourceLen characters.        *)
(***************************************************************************)
LexChars == { "n", "6", "4", " ", "\n", "/", ";", "#", "U+00E9", "U+00A0" }

NoStream == [ tokens |-> << >>, index |-> 0 ]
NoCall == [ op |-> "none", must_fail |-> FALSE, status |-> "ok", count |-> 0 ]
NoStmtCall == [ called |-> FALSE, from |-> 0, status |-> "ok", index |-> 0,
                statement |-> << >>, msg |-> "" ]
NoExprResult == [ called |-> FALSE, status |-> "ok", index |-> 0, value |-> << >>,
                  msg |-> "" ]

StreamIdle ==
    /\ overflow_checks = TRUE
    /\ streams = [ main |-> NoStream, sub |-> NoStream ]
    /\ call = NoCall

ParseIdle ==
    /\ token_stream = NoStream
    /\ definitions = << >>
    /\ parse_pc = "idle"
    /\ parse_msg = ""
    /\ function_name = None
    /\ statements = << >>
    /\ def_start = 0
    /\ stmt_call = NoStmtCall

InitLex ==
    /\ code \in SeqsUpTo(LexChars, MaxSourceLen)
    /\ current_position = 0
    /\ tokens = << >>
    /\ lex_pc = "run"
    /\ lex_err = None
    /\ StreamIdle
    /\ ParseIdle
    /\ expr_result = NoExprResult

\* One iteration of the scanning loop (lexer.rs 165-248).  Whether debug!()
\* evaluates its arguments depends on the logger the process installed.
LexIteration ==
    /\ lex_pc = "run"
    /\ ~LexerState_is_end(LexerState(code, current_position))
    /\ \E logging \in BOOLEAN :
          LET out == lex_iteration(LexerState(code, current_position), tokens, logging)
          IN  /\ current_position' = out.state.current_position
              /\ tokens' = out.tokens
              /\ lex_pc' = out.pc
              /\ lex_err' = out.err
    /\ UNCHANGED << code, streamVars, parseVars, expr_result >>

\* The loop condition fails: Ok(tokens) (lexer.rs 165, 250).
LexReturn ==
    /\ lex_pc = "run"
    /\ LexerState_is_end(LexerState(code, current_position))
    /\ lex_pc' = "ok"
    /\ UNCHANGED << code, current_position, tokens, lex_err, streamVars,
                    parseVars, expr_result >>

NextLex == LexIteration \/ LexReturn

SpecLex == InitLex /\ [][NextLex]_vars

(***************************************************************************)
(* Claims about lex.                                                       *)
(***************************************************************************)
\* The characters lex read for a token: those with the indices start .. end - 1,
\* the positions it passed to chars().nth.
ScannedLexeme(token) == SubSeq(code, token.start + 1, token.end)

\* C6: every token lex emits has start <= end <= len(source), and
\* source[start .. end] is the lexeme scanned for it, also in a source with
\* characters of more than one byte.
C6_TokenSpans ==
    \A i \in 1 .. Len(tokens) :
        /\ tokens[i].start <= tokens[i].end
        /\ tokens[i].end <= str_len(code)
        /\ Token_text(code, tokens[i]) = Some(ScannedLexeme(tokens[i]))

Covered(b) == \E i \in 1 .. Len(tokens) : tokens[i].start <= b /\ b < tokens[i].end

\* source[a .. b], or a text no source holds where that slice does not exist.
Slice(a, b) == IF str_get(code, a, b) = None THEN << "no slice" >> ELSE str_get(code, a, b)[1]

\* The text before token i that follows the offset `from`, the lexemes of the
\* tokens from i on and the text between and after them.
RECURSIVE Rebuild(_, _)
Rebuild(i, from) ==
    IF i > Len(tokens) THEN Slice(from, str_len(code))
    ELSE Slice(from, tokens[i].start) \o Slice(tokens[i].start, tokens[i].end)
         \o Rebuild(i + 1, tokens[i].end)

\* C7: when lex succeeds the tokens (comments included) are in source order with
\* non-empty spans that do not overlap, every position outside the spans holds
\* a whitespace character, and lexemes and skipped whitespace give the source.
C7_SpansCoverSource ==
    lex_pc = "ok" =>
        /\ \A i \in 1 .. Len(tokens) :
              tokens[i].start < tokens[i].end /\ tokens[i].end <= str_len(code)
        /\ \A i \in 1 .. Len(tokens) - 1 : tokens[i].end <= tokens[i + 1].start
        /\ \A b \in 0 .. str_len(code) - 1 :
              Covered(b) \/ (Slice(b, b + 1) # << "no slice" >>
                             /\ is_whitespace(Slice(b, b + 1)[1]))
        /\ Rebuild(1, 0) = code

\* A successful run with a comment, a lone Slash and skipped whitespace.
C7_Witness ==
    /\ lex_pc = "ok"
    /\ \E i \in 1 .. Len(tokens) : tokens[i].type_ = "Comment"
    /\ \E i \in 1 .. Len(tokens) : tokens[i].type_ # "Comment"
    /\ \E b \in 0 .. str_len(code) - 1 : ~Covered(b)

\* The loop is running: its condition is evaluated next, so that LexIteration
\* or LexReturn is enabled (their guards are complementary).
LexCanStep == lex_pc = "run"

\* C10: lex terminates with a result: the scanning loop stops only with
\* Ok(tokens) or with the Err of the first failure.
C10_ResultProduced == lex_pc \in { "ok", "err" } \/ LexCanStep

(***************************************************************************)
(* usize and isize.  The model keeps the two's-complement arithmetic of    *)
(* the code at a width of UsizeBits bits.  An overflowing operation panics *)
(* in a build with overflow checks and wraps in a build without them.      *)
(***************************************************************************)
UsizeModulus == 2 ^ UsizeBits
UsizeMax == UsizeModulus - 1
IsizeMax == (UsizeModulus \div 2) - 1
IsizeMin == -(UsizeModulus \div 2)

\* `x as isize`
as_isize(x) == IF x > IsizeMax THEN x - UsizeModulus ELSE x

WrapUsize(x) == x % UsizeModulus
WrapIsize(x) == ((x - IsizeMin) % UsizeModulus) + IsizeMin

\* [overflow, value]: the wrapped value, and whether the exact one was out of range.
usize_add(a, b) == [ overflow |-> a + b > UsizeMax, value |-> WrapUsize(a + b) ]
usize_sub(a, b) == [ overflow |-> a - b < 0, value |-> WrapUsize(a - b) ]
isize_sub(a, b) ==
    [ overflow |-> a - b > IsizeMax \/ a - b < IsizeMin, value |-> WrapIsize(a - b) ]

(***************************************************************************)
(* TokenStream { tokens, index }.  Every operation returns                 *)
(* [status, stream, value, msg]: status is "ok", "err" (an Err(String)) or *)
(* "panic"; stream is the stream after the call.                           *)
(***************************************************************************)
TokenStream_new(toks) == [ tokens |-> toks, index |-> 0 ]

Ok(stream, value) == [ status |-> "ok", stream |-> stream, value |-> value, msg |-> "" ]
Err(stream, msg) == [ status |-> "err", stream |-> stream, value |-> << >>, msg |-> msg ]
Panic(stream) == [ status |-> "panic", stream |-> stream, value |-> << >>, msg |-> "" ]

strip_comments(toks) == SelectSeq(toks, LAMBDA token : token.type_ # "Comment")

TokenStream_len(stream) == Len(stream.tokens)

TokenStream_is_end(stream) == stream.index >= TokenStream_len(stream)

\* slice.get(a .. b)
slice_get(toks, a, b) ==
    IF a <= b /\ b <= Len(toks) THEN Some(SubSeq(toks, a + 1, b)) ELSE None

\* next: value is <<token>>.
TokenStream_next(stream, error_message) ==
    IF TokenStream_is_end(stream) THEN Err(stream, error_message)
    ELSE Ok([ stream EXCEPT !.index = @ + 1 ], << stream.tokens[stream.index + 1] >>)

\* lookahead: value is the slice of `amount` tokens.
lookahead(stream, amount, error_message) ==
    LET end == usize_add(stream.index, amount)
        got == slice_get(stream.tokens, stream.index, end.value)
    IN  IF end.overflow /\ overflow_checks THEN Panic(stream)
        ELSE IF got = None THEN Err(stream, error_message)
        ELSE Ok(stream, got[1])

backtrack(stream, amount, error_message) ==
    LET difference == isize_sub(as_isize(stream.index), as_isize(amount))
        moved == usize_sub(stream.index, amount)
    IN  IF difference.overflow /\ overflow_checks THEN Panic(stream)
        ELSE IF difference.value < 0 THEN Err(stream, error_message)
        ELSE IF moved.overflow /\ overflow_checks THEN Panic(stream)
        ELSE Ok([ stream EXCEPT !.index = moved.value ], << >>)

\* make_substream: &self.tokens[self.index ..] panics past the end.
make_substream(stream) ==
    IF stream.index > Len(stream.tokens) THEN Panic(stream)
    ELSE Ok(TokenStream_new(SubSeq(stream.tokens, stream.index + 1, Len(stream.tokens))),
            << >>)

\* The scan of limit_to_first: the first index at or after current_index that
\* holds a token of the type, or the first index that holds no token.
RECURSIVE limit_scan(_, _, _)
limit_scan(toks, current_index, type_) ==
    IF current_index >= Len(toks) THEN current_index
    ELSE IF toks[current_index + 1].type_ = type_ THEN current_index
    ELSE limit_scan(toks, current_index + 1, type_)

\* limit_to_first: &self.tokens[.. current_index] panics past the end.
limit_to_first(stream, type_) ==
    LET current_index == limit_scan(stream.tokens, stream.index, type_)
    IN  IF current_index > Len(stream.tokens) THEN Panic(stream)
        ELSE Ok([ stream EXCEPT !.tokens = SubSeq(stream.tokens, 1, current_index) ], << >>)

\* The loop of advance_past_other: next() until it fails or returns other_token.
RECURSIVE advance_loop(_, _)
advance_loop(stream, other_token) ==
    LET got == TokenStream_next(stream, "")
    IN  IF got.status # "ok" THEN stream
        ELSE IF got.value[1] = other_token THEN got.stream
        ELSE advance_loop(got.stream, other_token)

\* An off-by-one variant: the loop consumes one token more than the match.
advance_past_other_overrun(stream, other_stream) ==
    LET peeked == lookahead(other_stream, 1, "Expected any token")
        landed == advance_loop(stream, peeked.value[1])
    IN  IF peeked.status = "panic" THEN Panic(stream)
        ELSE IF peeked.status = "err" THEN Err(stream, peeked.msg)
        ELSE Ok(TokenStream_next(landed, "").stream, << >>)

advance_past_other(stream, other_stream) ==
    LET peeked == lookahead(other_stream, 1, "Expected any token")
    IN  IF peeked.status = "panic" THEN Panic(stream)
        ELSE IF peeked.status = "err" THEN Err(stream, peeked.msg)
        ELSE Ok(advance_loop(stream, peeked.value[1]), << >>)

(***************************************************************************)
(* The AST (ast.rs).                                                       *)
(***************************************************************************)
NaturalLiteral(value) == [ node |-> "NaturalLiteral", value |-> value ]
UnaryOperation(operator, operand) ==
    [ node |-> "UnaryOperation", operator |-> operator, operand |-> operand ]
BinaryOperation(operator, lhs, rhs) ==
    [ node |-> "BinaryOperation", operator |-> operator, lhs |-> lhs, rhs |-> rhs ]
VariableDeclaration(kind, name, type_, initial_value) ==
    [ node |-> "VariableDeclaration", kind |-> kind, name |-> name, type_ |-> type_,
      initial_value |-> initial_value ]
Block(stmts, value) == [ node |-> "Block", statements |-> stmts, value |-> value ]
Function(name, body) == [ node |-> "Function", name |-> name, body |-> body ]

UnaryOperator_from_token_type(token_type) ==
    CASE token_type = "Plus" -> Some("Plus")
      [] token_type = "Minus" -> Some("Minus")
      [] OTHER -> None

BinaryOperator_from_token_type(token_type) ==
    CASE token_type = "Plus" -> Some("Add")
      [] token_type = "Minus" -> Some("Subtract")
      [] token_type = "Star" -> Some("Multiply")
      [] OTHER -> None

(***************************************************************************)
(* Result plumbing.  Try is the `?` operator: an Err (or a panic) of the   *)
(* operand ends the caller with it, an Ok goes on.  Unwrap is              *)
(* Option::unwrap: None panics.  Failing puts the caller's own stream into *)
(* a failure that arose on a sub-stream.                                   *)
(***************************************************************************)
Try(result, Continue(_)) == IF result.status = "ok" THEN Continue(result) ELSE result

Unwrap(option, stream, Continue(_)) ==
    IF option = None THEN Panic(stream) ELSE Continue(option[1])

Failing(result, stream) ==
    IF result.status = "ok" THEN result ELSE [ result EXCEPT !.stream = stream ]

(***************************************************************************)
(* Token::expect, Token::expect_any and str::parse::<i128>.                *)
(***************************************************************************)
expect(stream, token, type_) ==
    IF token.type_ = type_ THEN Ok(stream, << token >>)
    ELSE Err(stream, "Expected '" \o type_ \o "' token")

expect_any(stream, token, types, shown) ==
    IF token.type_ \in types THEN Ok(stream, << token >>)
    ELSE Err(stream, "Expected any of '" \o shown \o "' token")

\* stream.next(error_message)?.expect(type_)?
next_expect(stream, error_message, type_) ==
    Try(TokenStream_next(stream, error_message),
        LAMBDA got : expect(got.stream, got.value[1], type_))

DigitChars == << "0", "1", "2", "3", "4", "5", "6", "7", "8", "9" >>
DigitValue(c) == (CHOOSE d \in 1 .. 10 : DigitChars[d] = c) - 1

RECURSIVE DecimalValue(_)
DecimalValue(text) ==
    IF text = << >> THEN 0
    ELSE 10 * DecimalValue(SubSeq(text, 1, Len(text) - 1)) + DigitValue(text[Len(text)])

\* parse::<i128>() of a lexeme: None for a text that is no run of digits.  (A
\* literal beyond i128 is an Err as well; the lexemes here are far below it.)
parse_i128(text) ==
    IF text # << >> /\ \A k \in 1 .. Len(text) : is_ascii_digit(text[k])
    THEN Some(DecimalValue(text))
    ELSE None

(***************************************************************************)
(* The expression parser (parser.rs 165-219).  The sub_operation_parser of *)
(* parse_binary_operation is passed by name.                               *)
(***************************************************************************)
\* The IntegerLiteral arm of parse_factor, with the literal token consumed.
natural_literal(stream, number_literal) ==
    Unwrap(Token_text(code, number_literal), stream,
           LAMBDA text :
               IF parse_i128(text) = None THEN Err(stream, "Invalid number literal")
               ELSE Ok(stream, << NaturalLiteral(parse_i128(text)[1]) >>))

RECURSIVE parse_factor(_)

\* The match of parse_factor on the token seen by lookahead.
factor_of(stream, token) ==
    CASE token.type_ \in { "Plus", "Minus" } ->
             Try(TokenStream_next(stream, ""),
                 LAMBDA consumed :
                     Try(parse_factor(consumed.stream),
                         LAMBDA unary_operand :
                             Unwrap(UnaryOperator_from_token_type(token.type_),
                                    unary_operand.stream,
                                    LAMBDA operator :
                                        Ok(unary_operand.stream,
                                           << UnaryOperation(operator,
                                                             unary_operand.value[1]) >>))))
      [] token.type_ = "IntegerLiteral" ->
             Try(next_expect(stream, "", "IntegerLiteral"),
                 LAMBDA number_literal :
                     natural_literal(number_literal.stream, number_literal.value[1]))
      [] OTHER -> Err(stream, "Unknown start of expression '" \o token.type_ \o "'")

parse_factor(stream) ==
    Try(lookahead(stream, 1, "Expected expression"),
        LAMBDA peeked : factor_of(stream, peeked.value[1]))

RECURSIVE parse_binary_operation(_, _, _)
RECURSIVE binary_operation_loop(_, _, _, _)

parse_term(stream) ==
    parse_binary_operation(stream, "parse_factor", { "Star", "Slash" })

sub_operation(sub_operation_parser, stream) ==
    IF sub_operation_parser = "parse_term" THEN parse_term(stream) ELSE parse_factor(stream)

\* One pass of `while let Ok(operator) = maybe_operator` with lhs in hand.
while_let_operator(maybe_operator, stream, lhs, sub_operation_parser, operators) ==
    IF maybe_operator.status = "panic" THEN maybe_operator
    ELSE IF maybe_operator.status = "err" THEN Ok(stream, << lhs >>)
    ELSE IF maybe_operator.value[1].type_ \notin operators THEN Ok(stream, << lhs >>)
    ELSE Try(TokenStream_next(stream, ""),
             LAMBDA consumed :
                 Try(sub_operation(sub_operation_parser, consumed.stream),
                     LAMBDA rhs :
                         Unwrap(BinaryOperator_from_token_type(maybe_operator.value[1].type_),
                                rhs.stream,
                                LAMBDA operator :
                                    binary_operation_loop(
                                        rhs.stream,
                                        BinaryOperation(operator, lhs, rhs.value[1]),
                                        sub_operation_parser, operators))))

binary_operation_loop(stream, lhs, sub_operation_parser, operators) ==
    while_let_operator(lookahead(stream, 1, "Expected any of"), stream, lhs,
                       sub_operation_parser, operators)

parse_binary_operation(stream, sub_operation_parser, operators) ==
    Try(sub_operation(sub_operation_parser, stream),
        LAMBDA lhs :
            binary_operation_loop(lhs.stream, lhs.value[1], sub_operation_parser, operators))

\* A variant without the multiplicative level: every operand is a factor.
parse_expression_flat(stream) ==
    parse_binary_operation(stream, "parse_factor", { "Plus", "Minus", "Star" })

parse_expression(stream) ==
    parse_binary_operation(stream, "parse_term", { "Plus", "Minus" })

(***************************************************************************)
(* parse_statement (parser.rs 131-163).  value is <<statement>>.           *)
(***************************************************************************)
\* The branch with an initializer (parser.rs 143-151), entered with the '='
\* seen by lookahead.  value is Some(expression).
parse_initializer(stream) ==
    Try(TokenStream_next(stream, ""),
        LAMBDA equals :
    Try(Failing(make_substream(equals.stream), equals.stream),
        LAMBDA substream :
    Try(Failing(limit_to_first(substream.stream, "Semicolon"), equals.stream),
        LAMBDA expression_stream :
    Try(Failing(parse_expression(expression_stream.stream), equals.stream),
        LAMBDA expression :
    Try(Failing(backtrack(expression.stream, 1, ":yaksplode:"), equals.stream),
        LAMBDA backtracked :
    Try(advance_past_other(equals.stream, backtracked.stream),
        LAMBDA advanced :
    Try(next_expect(advanced.stream, "Expected ';'", "Semicolon"),
        LAMBDA semicolon :
            Ok(semicolon.stream, Some(expression.value[1])))))))))

\* The branch without one (parser.rs 153-154): next("").unwrap(), then the ';'.
parse_no_initializer(stream) ==
    Unwrap(IF TokenStream_is_end(stream) THEN None ELSE Some(TokenStream_next(stream, "")),
           stream,
           LAMBDA got :
               Try(expect(got.stream, got.value[1], "Semicolon"),
                   LAMBDA semicolon : Ok(semicolon.stream, None)))

\* parser.rs 141-155.  value is the Option<Expression>.
parse_optional_initializer(stream) ==
    Try(lookahead(stream, 1, "Expected '=' or ';'"),
        LAMBDA peeked :
            IF peeked.value[1].type_ = "Equals" THEN parse_initializer(stream)
            ELSE parse_no_initializer(stream))

\* A variant with the two kinds exchanged.
variable_declaration_swapped(stream, kind, identifier, initializer) ==
    Unwrap(Token_text(code, identifier), stream,
           LAMBDA name :
               Ok(stream,
                  << VariableDeclaration(
                         IF kind.type_ = "Var" THEN "Immutable" ELSE "Mutable",
                         name, "N64", initializer) >>))

\* parser.rs 157-162: the statement, built with identifier.text().
variable_declaration(stream, kind, identifier, initializer) ==
    Unwrap(Token_text(code, identifier), stream,
           LAMBDA name :
               Ok(stream,
                  << VariableDeclaration(
                         IF kind.type_ = "Const" THEN "Immutable" ELSE "Mutable",
                         name, "N64", initializer) >>))

parse_statement(stream) ==
    Try(TokenStream_next(stream, "Expected statement"),
        LAMBDA first :
    Try(expect_any(first.stream, first.value[1], { "Var", "Const" }, "[Var, Const]"),
        LAMBDA kind :
    Try(next_expect(kind.stream, "Expected identifier", "Identifer"),
        LAMBDA identifier :
    Try(next_expect(identifier.stream, "Expected ':'", "Colon"),
        LAMBDA colon :
    Try(next_expect(colon.stream, "Expected type", "N64"),
        LAMBDA type_ :
    Try(parse_optional_initializer(type_.stream),
        LAMBDA initializer :
            variable_declaration(initializer.stream, kind.value[1], identifier.value[1],
                                 initializer.value)))))))

(***************************************************************************)
(* parse_definition and parse_block (parser.rs 97-129), in the pieces the  *)
(* steps of SpecParse run.                                                 *)
(***************************************************************************)
\* Whether parse_definition takes the Function branch (parser.rs 98-99).
is_function(first_token) ==
    first_token.status = "ok" /\ first_token.value[1].type_ = "Function"

definition_is_function(stream) == is_function(lookahead(stream, 1, "Expected definition"))

\* 'function' Identifier '(' ')' and the '{' that opens parse_block
\* (parser.rs 100-104, 117).  value is <<the name token>>.
parse_function_header(stream) ==
    Try(TokenStream_next(stream, ""),
        LAMBDA keyword :
    Try(next_expect(keyword.stream, "Expected function name", "Identifer"),
        LAMBDA function_name_token :
    Try(next_expect(function_name_token.stream, "Expected '('", "OpenParenthesis"),
        LAMBDA open :
    Try(next_expect(open.stream, "Expected ')'", "CloseParenthesis"),
        LAMBDA close :
    Try(next_expect(close.stream, "Expected '{'", "OpenBrace"),
        LAMBDA brace : Ok(brace.stream, function_name_token.value))))))

\* The loop condition on the peeked token (parser.rs 122).
not_close_brace(maybe_peeked_next) ==
    maybe_peeked_next.status = "ok" /\ maybe_peeked_next.value[1].type_ # "CloseBrace"

\* A variant of the loop condition that stops at the end of the stream only.
block_continues_to_end(stream) ==
    lookahead(stream, 1, "Expected statement").status = "ok"

\* The condition of the statement loop of parse_block (parser.rs 121-122, 124).
block_continues(stream) ==
    not_close_brace(lookahead(stream, 1, "Expected statement"))

\* The end of parse_definition's Function branch (parser.rs 108-110).
\* value is <<Definition::Function>>.
finish_function(stream, name_token, stmts) ==
    Try(next_expect(stream, "Expected '}'", "CloseBrace"),
        LAMBDA brace :
            Unwrap(Token_text(code, name_token), brace.stream,
                   LAMBDA name : Ok(brace.stream, << Function(name, Block(stmts, None)) >>)))

(***************************************************************************)
(* SpecStream: any sequence of TokenStream calls on a stream ("main") and  *)
(* on a sub-stream made from it ("sub").  The tokens are those of a source *)
(* whose lexemes are one character long.                                   *)
(***************************************************************************)
StreamTypes == { "IntegerLiteral", "Semicolon" }
StreamNames == { "main", "sub" }
Amounts == (0 .. MaxStreamLen) \cup { IsizeMax + 1, UsizeMax }

UnitTokens(types) == [ i \in 1 .. Len(types) |-> Token(types[i], i - 1, i) ]

InitStream ==
    /\ code = << >>
    /\ current_position = 0
    /\ \E types \in SeqsUpTo(StreamTypes, MaxStreamLen) : tokens = UnitTokens(types)
    /\ lex_pc = "ok"
    /\ lex_err = None
    /\ overflow_checks \in BOOLEAN
    /\ streams = [ main |-> TokenStream_new(tokens), sub |-> TokenStream_new(<< >>) ]
    /\ call = NoCall
    /\ ParseIdle
    /\ expr_result = NoExprResult

\* The record of a call: must_fail says that the call was one the stream has to
\* refuse (next at the end, lookahead past the end, backtrack before the start).
Called(op, must_fail, result) ==
    [ op |-> op, must_fail |-> must_fail, status |-> result.status,
      count |-> call.count + 1 ]

CanCall == call.status # "panic" /\ call.count < MaxCalls

StreamUnchanged == UNCHANGED << lexVars, overflow_checks, parseVars, expr_result >>

StreamNext(on) ==
    /\ CanCall
    /\ LET result == TokenStream_next(streams[on], "next")
       IN  /\ streams' = [ streams EXCEPT ![on] = result.stream ]
           /\ call' = Called("next", streams[on].index >= Len(streams[on].tokens), result)
    /\ StreamUnchanged

StreamLookahead(on, amount) ==
    /\ CanCall
    /\ LET result == lookahead(streams[on], amount, "lookahead")
       IN  /\ streams' = [ streams EXCEPT ![on] = result.stream ]
           /\ call' = Called("lookahead",
                             Len(streams[on].tokens) - streams[on].index < amount, result)
    /\ StreamUnchanged

StreamBacktrack(on, amount) ==
    /\ CanCall
    /\ LET result == backtrack(streams[on], amount, "backtrack")
       IN  /\ streams' = [ streams EXCEPT ![on] = result.stream ]
           /\ call' = Called("backtrack", amount > streams[on].index, result)
    /\ StreamUnchanged

\* The sub-stream is replaced by a sub-stream of `on`.
StreamMakeSubstream(on) ==
    /\ CanCall
    /\ LET result == make_substream(streams[on])
       IN  /\ streams' = IF result.status = "ok"
                         THEN [ streams EXCEPT !.sub = result.stream ]
                         ELSE streams
           /\ call' = Called("make_substream", FALSE, result)
    /\ StreamUnchanged

StreamLimitToFirst(on, type_) ==
    /\ CanCall
    /\ LET result == limit_to_first(streams[on], type_)
       IN  /\ streams' = [ streams EXCEPT ![on] = result.stream ]
           /\ call' = Called("limit_to_first", FALSE, result)
    /\ StreamUnchanged

StreamAdvancePastOther(on, other) ==
    /\ CanCall
    /\ LET result == advance_past_other(streams[on], streams[other])
       IN  /\ streams' = [ streams EXCEPT ![on] = result.stream ]
           /\ call' = Called("advance_past_other", FALSE, result)
    /\ StreamUnchanged

NextStream ==
    \E on \in StreamNames :
        \/ StreamNext(on)
        \/ \E amount \in Amounts : StreamLookahead(on, amount)
        \/ \E amount \in Amounts : StreamBacktrack(on, amount)
        \/ StreamMakeSubstream(on)
        \/ \E type_ \in StreamTypes : StreamLimitToFirst(on, type_)
        \/ \E other \in StreamNames : StreamAdvancePastOther(on, other)

SpecStream == InitStream /\ [][NextStream]_vars

\* C1: in every state reached by TokenStream calls the cursor of each stream lies
\* in 0 .. len(tokens), no call panics, and next at the end, lookahead(n) with
\* fewer than n tokens left and backtrack(n) with n > index return an Err.
C1_CursorInRange ==
    /\ \A on \in StreamNames :
          /\ 0 <= streams[on].index
          /\ streams[on].index <= Len(streams[on].tokens)
    /\ call.status # "panic"
    /\ call.must_fail => call.status = "err"

(***************************************************************************)
(* The inputs of the parser: the tokens lex returns for a source text made *)
(* of lexemes, each followed by one space (a comment by a line break).     *)
(***************************************************************************)
Word(type_, lexeme) == [ type_ |-> type_, lexeme |-> lexeme ]

WFunction == Word("Function", << "f", "u", "n", "c", "t", "i", "o", "n" >>)
WConst == Word("Const", << "c", "o", "n", "s", "t" >>)
WVar == Word("Var", << "v", "a", "r" >>)
WN64 == Word("N64", << "n", "6", "4" >>)
WName(c) == Word("Identifer", << c >>)
WInteger(c) == Word("IntegerLiteral", << c >>)
WSymbol(c) == Word(from_symbol(c)[1], << c >>)
WComment == Word("Comment", << "/", "/", "c" >>)

RECURSIVE SourceOf(_)
SourceOf(words) ==
    IF words = << >> THEN << >>
    ELSE words[1].lexeme \o << IF words[1].type_ = "Comment" THEN "\n" ELSE " " >>
         \o SourceOf(Tail(words))

RECURSIVE TokensOf(_, _)
TokensOf(words, offset) ==
    IF words = << >> THEN << >>
    ELSE << Token(words[1].type_, offset, offset + Len(words[1].lexeme)) >>
         \o TokensOf(Tail(words), offset + Len(words[1].lexeme) + 1)

RECURSIVE Concat(_)
Concat(segments) ==
    IF segments = << >> THEN << >> ELSE segments[1] \o Concat(Tail(segments))

FunctionHead == << WFunction, WName("f"), WSymbol("("), WSymbol(")"), WSymbol("{") >>
Declaration(keyword, name) == << keyword, WName(name), WSymbol(":"), WN64 >>

\* What may stand before a statement, the start of a statement, the text after
\* its type, and the segments of the rest of the source.
Prefixes == { << >>, FunctionHead }
Heads ==
    { << >>,
      << WComment >> \o Declaration(WConst, "x"),
      Declaration(WVar, "x"),
      Declaration(WConst, "x") \o << WComment, WSymbol("=") >>,
      Declaration(WVar, "x") \o << WSymbol("=") >>,
      << WVar, WName("x"), WN64 >> }
Initializers ==
    { << >>,
      << WInteger("1") >>,
      << WInteger("1"), WSymbol("+"), WInteger("2") >>,
      << WSymbol("-"), WInteger("1") >>,
      << WInteger("1"), WSymbol("/"), WInteger("2") >>,
      << WInteger("1"), WInteger("2") >>,
      << WInteger("1"), WSymbol("+") >>,
      << WSymbol("=") >> }
TailSegments ==
    { << WSymbol(";") >>, << WSymbol("}") >>, << WInteger("2") >>, Declaration(WVar, "y") }

LexIdle ==
    /\ current_position = 0
    /\ lex_pc = "ok"
    /\ lex_err = None

(***************************************************************************)
(* SpecParse: parse(tokens), one step per definition of the File loop and  *)
(* per statement of the block loop.                                        *)
(***************************************************************************)
InitParse ==
    /\ \E prefix \in Prefixes, head \in Heads, initializer \in Initializers,
          tail \in SeqsUpTo(TailSegments, MaxTail) :
          LET words == prefix \o head \o initializer \o Concat(tail)
          IN  /\ code = SourceOf(words)
              /\ tokens = TokensOf(words, 0)
    /\ LexIdle
    /\ StreamIdle
    /\ token_stream = NoStream
    /\ definitions = << >>
    /\ parse_pc = "start"
    /\ parse_msg = ""
    /\ function_name = None
    /\ statements = << >>
    /\ def_start = 0
    /\ stmt_call = NoStmtCall
    /\ expr_result = NoExprResult

ParseUnchanged == UNCHANGED << lexVars, streamVars, expr_result >>

StmtCalled(from, result) ==
    [ called |-> TRUE, from |-> from, status |-> result.status,
      index |-> result.stream.index, statement |-> result.value, msg |-> result.msg ]

\* parser.rs 85-88: strip the comments, open the stream.
ParseBegin ==
    /\ parse_pc = "start"
    /\ token_stream' = TokenStream_new(strip_comments(tokens))
    /\ parse_pc' = "file"
    /\ UNCHANGED << definitions, parse_msg, function_name, statements, def_start, stmt_call >>
    /\ ParseUnchanged

\* parser.rs 90, 94: the File loop ends, Ok(File).
FileLoopEnd ==
    /\ parse_pc = "file"
    /\ TokenStream_is_end(token_stream)
    /\ parse_pc' = "ok"
    /\ UNCHANGED << token_stream, definitions, parse_msg, function_name, statements,
                    def_start, stmt_call >>
    /\ ParseUnchanged

\* parse_definition, Function branch, up to the '{' of parse_block.
EnterFunction(header) ==
    /\ token_stream' = header.stream
    /\ parse_pc' = IF header.status = "ok" THEN "block" ELSE header.status
    /\ parse_msg' = header.msg
    /\ function_name' = header.value

DefinitionFunction ==
    /\ parse_pc = "file"
    /\ ~TokenStream_is_end(token_stream)
    /\ definition_is_function(token_stream)
    /\ EnterFunction(parse_function_header(token_stream))
    /\ def_start' = token_stream.index
    /\ statements' = << >>
    /\ UNCHANGED << definitions, stmt_call >>
    /\ ParseUnchanged

\* The Result of a callee of the loop: `?`, and a push on Ok.
Returned(result, back_to) ==
    /\ token_stream' = result.stream
    /\ parse_pc' = IF result.status = "ok" THEN back_to ELSE result.status
    /\ parse_msg' = result.msg

Pushed(vec, result) == IF result.status = "ok" THEN Append(vec, result.value[1]) ELSE vec

StatementParsed(result, back_to) ==
    /\ Returned(result, back_to)
    /\ stmt_call' = StmtCalled(token_stream.index, result)
    /\ IF back_to = "file"
       THEN definitions' = Pushed(definitions, result) /\ UNCHANGED statements
       ELSE statements' = Pushed(statements, result) /\ UNCHANGED definitions

\* parse_definition, Statement branch.
DefinitionStatement ==
    /\ parse_pc = "file"
    /\ ~TokenStream_is_end(token_stream)
    /\ ~definition_is_function(token_stream)
    /\ StatementParsed(parse_statement(token_stream), "file")
    /\ def_start' = token_stream.index
    /\ UNCHANGED function_name
    /\ ParseUnchanged

\* One iteration of the statement loop of parse_block.
BlockStatement ==
    /\ parse_pc = "block"
    /\ block_continues(token_stream)
    /\ StatementParsed(parse_statement(token_stream), "block")
    /\ UNCHANGED << function_name, def_start >>
    /\ ParseUnchanged

FunctionParsed(result) ==
    /\ Returned(result, "file")
    /\ definitions' = Pushed(definitions, result)

\* The loop of parse_block ends: Ok(Block), then the '}' of parse_definition.
BlockEnd ==
    /\ parse_pc = "block"
    /\ ~block_continues(token_stream)
    /\ FunctionParsed(finish_function(token_stream, function_name[1], statements))
    /\ UNCHANGED << function_name, statements, def_start, stmt_call >>
    /\ ParseUnchanged

NextParse ==
    \/ ParseBegin
    \/ FileLoopEnd
    \/ DefinitionFunction
    \/ DefinitionStatement
    \/ BlockStatement
    \/ BlockEnd

SpecParse == InitParse /\ [][NextParse]_vars

(***************************************************************************)
(* Claims about the parser.                                                *)
(***************************************************************************)
\* A token as the grammar sees it: its type and, for a literal, its number.
Spelled(token) ==
    << token.type_,
       IF token.type_ = "IntegerLiteral" THEN parse_i128(Token_text(code, token)[1])[1]
       ELSE 0 >>

SpelledSeq(toks) == [ i \in 1 .. Len(toks) |-> Spelled(toks[i]) ]

\* The token of a binary or unary operator.
OperatorToken(operator) ==
    CASE operator \in { "Add", "Plus" } -> "Plus"
      [] operator \in { "Subtract", "Minus" } -> "Minus"
      [] operator = "Multiply" -> "Star"
      [] operator = "Divide" -> "Slash"

\* The tokens an expression is written with, in order (the grammar has no
\* parentheses, so a tree determines them).
RECURSIVE Spelling(_)
Spelling(expression) ==
    CASE expression.node = "NaturalLiteral" -> << << "IntegerLiteral", expression.value >> >>
      [] expression.node = "UnaryOperation" ->
             << << OperatorToken(expression.operator), 0 >> >> \o Spelling(expression.operand)
      [] expression.node = "BinaryOperation" ->
             Spelling(expression.lhs) \o << << OperatorToken(expression.operator), 0 >> >>
             \o Spelling(expression.rhs)

\* The position of the first token of the type after position p; 0 if none.
FirstAfter(toks, p, type_) ==
    IF \E q \in p + 1 .. Len(toks) : toks[q].type_ = type_
    THEN CHOOSE q \in p + 1 .. Len(toks) :
             /\ toks[q].type_ = type_
             /\ \A r \in p + 1 .. q - 1 : toks[r].type_ # type_
    ELSE 0

\* The type of the k-th token of the last parse_statement call; "end" past the end.
StmtType(k) ==
    IF stmt_call.from + k <= Len(token_stream.tokens)
    THEN token_stream.tokens[stmt_call.from + k].type_
    ELSE "end"

StmtWithInitializer ==
    /\ stmt_call.called
    /\ stmt_call.status = "ok"
    /\ stmt_call.statement[1].initial_value # None

\* C2: when parse_statement succeeds on a declaration with an initializer, the
\* cursor stands right after the first Semicolon that follows the '=', and the
\* expression is written with exactly the tokens between the '=' and it.
C2_InitializerBoundary ==
    StmtWithInitializer =>
        LET toks == token_stream.tokens
            equals == stmt_call.from + 5
            semicolon == FirstAfter(toks, equals, "Semicolon")
        IN  /\ StmtType(5) = "Equals"
            /\ semicolon # 0
            /\ stmt_call.index = semicolon
            /\ Spelling(stmt_call.statement[1].initial_value[1])
                   = SpelledSeq(SubSeq(toks, equals + 1, semicolon - 1))

\* A declaration with a binary initializer, with tokens left after its ';'.
C2_Witness ==
    /\ StmtWithInitializer
    /\ stmt_call.statement[1].initial_value[1].node = "BinaryOperation"
    /\ stmt_call.index < Len(token_stream.tokens)

\* C5: parse ends in Ok(File) or in an Err, never in a panic.
C5_NoPanic == parse_pc # "panic"

\* The tokens of the last parse_definition call, which parsed a function.
FunctionParsedLast ==
    /\ parse_pc \in { "file", "ok" }
    /\ definitions # << >>
    /\ definitions[Len(definitions)].node = "Function"

Count(toks, from, to, type_) == Cardinality({ q \in from .. to : toks[q].type_ = type_ })

EmptyFunctionTypes ==
    << "Function", "Identifer", "OpenParenthesis", "CloseParenthesis", "OpenBrace",
       "CloseBrace" >>

InputTypes == [ i \in 1 .. Len(strip_comments(tokens)) |-> strip_comments(tokens)[i].type_ ]

\* C8: a parsed function consumed exactly one '{' and exactly one '}', the '}'
\* last; 'function f() {}' parses to a Function with an empty Block and no
\* value, the stream exhausted; a body that no '}' follows is an Err.
C8_OneBracePair ==
    /\ FunctionParsedLast =>
          LET toks == token_stream.tokens
              last == definitions[Len(definitions)]
          IN  /\ Count(toks, def_start + 1, token_stream.index, "OpenBrace") = 1
              /\ Count(toks, def_start + 1, token_stream.index, "CloseBrace") = 1
              /\ toks[def_start + 5].type_ = "OpenBrace"
              /\ toks[token_stream.index].type_ = "CloseBrace"
              /\ last.body.value = None
              /\ Len(last.body.statements)
                     = Count(toks, def_start + 1, token_stream.index, "Var")
                       + Count(toks, def_start + 1, token_stream.index, "Const")
    /\ InputTypes = EmptyFunctionTypes =>
          /\ parse_pc \notin { "err", "panic" }
          /\ parse_pc = "ok" =>
                /\ definitions = << Function(<< "f" >>, Block(<< >>, None)) >>
                /\ TokenStream_is_end(token_stream)
    /\ (parse_pc = "block" /\ ~block_continues(token_stream)
           /\ TokenStream_is_end(token_stream))
          => finish_function(token_stream, function_name[1], statements).status = "err"
    /\ (parse_pc = "err" /\ parse_msg = "Expected '}'") =>
          TokenStream_is_end(token_stream) /\ function_name # None

\* A function with a statement in its body was parsed and tokens follow it.
C8_Witness ==
    /\ FunctionParsedLast
    /\ definitions[Len(definitions)].body.statements # << >>
    /\ ~TokenStream_is_end(token_stream)

StmtHead ==
    /\ stmt_call.called
    /\ StmtType(1) \in { "Var", "Const" }
    /\ StmtType(2) = "Identifer"
    /\ StmtType(3) = "Colon"
    /\ StmtType(4) = "N64"

StmtKind == IF StmtType(1) = "Const" THEN "Immutable" ELSE "Mutable"

StmtName == Token_text(code, token_stream.tokens[stmt_call.from + 2])[1]

\* The tokens between the '=' of the last declaration and the first ';' after it.
InitializerTokens ==
    LET toks == token_stream.tokens
        semicolon == FirstAfter(toks, stmt_call.from + 5, "Semicolon")
    IN  SubSeq(toks, stmt_call.from + 6, semicolon - 1)

ExprWords ==
    { WInteger("1"), WInteger("2"), WSymbol("+"), WSymbol("-"), WSymbol("*"),
      WSymbol("/") }

InitExpr ==
    /\ \E words \in SeqsUpTo(ExprWords, MaxExprLen) :
          /\ code = SourceOf(words)
          /\ tokens = TokensOf(words, 0)
    /\ LexIdle
    /\ StreamIdle
    /\ ParseIdle
    /\ expr_result = NoExprResult

ExprCalled(result) ==
    [ called |-> TRUE, status |-> result.status, index |-> result.stream.index,
      value |-> result.value, msg |-> result.msg ]

ParseExpression ==
    /\ ~expr_result.called
    /\ expr_result' = ExprCalled(parse_expression(TokenStream_new(tokens)))
    /\ UNCHANGED << lexVars, streamVars, parseVars >>

NextExpr == ParseExpression

SpecExpr == InitExpr /\ [][NextExpr]_vars

(***************************************************************************)
(* Claims about parse_expression.  The reference grammar                   *)
(*   Expression := Term (('+'|'-') Term)*                                  *)
(*   Term       := Factor (('*'|'/') Factor)*                              *)
(*   Factor     := ('+'|'-') Factor | IntegerLiteral                       *)
(* is read from the right: an expression splits at its last binary '+' or  *)
(* '-' (one that follows a literal), a term at its last '*' or '/'.        *)
(***************************************************************************)
Invalid == [ node |-> "Invalid" ]

Joined(operator, lhs, rhs) ==
    IF lhs = Invalid \/ rhs = Invalid THEN Invalid ELSE BinaryOperation(operator, lhs, rhs)

Splits(s, types) ==
    { i \in 2 .. Len(s) - 1 : s[i][1] \in types /\ s[i - 1][1] = "IntegerLiteral" }

Last(S) == CHOOSE i \in S : \A j \in S : j <= i

RECURSIVE RefFactor(_)
RefFactor(s) ==
    IF Len(s) = 1 /\ s[1][1] = "IntegerLiteral" THEN NaturalLiteral(s[1][2])
    ELSE IF Len(s) > 1 /\ s[1][1] \in { "Plus", "Minus" }
    THEN IF RefFactor(Tail(s)) = Invalid THEN Invalid
         ELSE UnaryOperation(s[1][1], RefFactor(Tail(s)))
    ELSE Invalid

RECURSIVE RefTerm(_)
RefTerm(s) ==
    IF Splits(s, { "Star", "Slash" }) = { } THEN RefFactor(s)
    ELSE LET i == Last(Splits(s, { "Star", "Slash" }))
         IN  Joined(IF s[i][1] = "Star" THEN "Multiply" ELSE "Divide",
                    RefTerm(SubSeq(s, 1, i - 1)), RefFactor(SubSeq(s, i + 1, Len(s))))

RECURSIVE RefExpression(_)
RefExpression(s) ==
    IF Splits(s, { "Plus", "Minus" }) = { } THEN RefTerm(s)
    ELSE LET i == Last(Splits(s, { "Plus", "Minus" }))
         IN  Joined(IF s[i][1] = "Plus" THEN "Add" ELSE "Subtract",
                    RefExpression(SubSeq(s, 1, i - 1)), RefTerm(SubSeq(s, i + 1, Len(s))))

\* evaluate_expression of the unit test (parser.rs 236-251).
RECURSIVE evaluate_expression(_)
evaluate_expression(expression) ==
    CASE expression.node = "NaturalLiteral" -> expression.value
      [] expression.node = "UnaryOperation" ->
             IF expression.operator = "Plus" THEN evaluate_expression(expression.operand)
             ELSE -evaluate_expression(expression.operand)
      [] expression.node = "BinaryOperation" ->
             CASE expression.operator = "Add" ->
                      evaluate_expression(expression.lhs) + evaluate_expression(expression.rhs)
               [] expression.operator = "Subtract" ->
                      evaluate_expression(expression.lhs) - evaluate_expression(expression.rhs)
               [] expression.operator = "Multiply" ->
                      evaluate_expression(expression.lhs) * evaluate_expression(expression.rhs)
               [] expression.operator = "Divide" ->
                      LET l == evaluate_expression(expression.lhs)
                          r == evaluate_expression(expression.rhs)
                          abs(x) == IF x < 0 THEN -x ELSE x
                      IN  IF (l < 0) = (r < 0) THEN abs(l) \div abs(r)
                          ELSE -(abs(l) \div abs(r))

HasSlash == \E i \in 1 .. Len(tokens) : tokens[i].type_ = "Slash"

\* C3: on integer literals, unary '+'/'-' and binary '+', '-', '*' the parser
\* returns the tree of the reference grammar: a sequence of the grammar is
\* parsed whole into its tree, and whatever is parsed is the tree of the tokens
\* consumed.
C3_ReferenceTree ==
    (expr_result.called /\ ~HasSlash) =>
        /\ expr_result.status # "panic"
        /\ RefExpression(SpelledSeq(tokens)) # Invalid =>
              /\ expr_result.status = "ok"
              /\ expr_result.index = Len(tokens)
              /\ expr_result.value = << RefExpression(SpelledSeq(tokens)) >>
        /\ expr_result.status = "ok" =>
              expr_result.value
                  = << RefExpression(SpelledSeq(SubSeq(tokens, 1, expr_result.index))) >>

\* '2 - 2 - 1' was parsed, to a tree that evaluates to -1.
C3_Witness ==
    /\ expr_result.called
    /\ SpelledSeq(tokens)
           = << << "IntegerLiteral", 2 >>, << "Minus", 0 >>, << "IntegerLiteral", 2 >>,
                << "Minus", 0 >>, << "IntegerLiteral", 1 >> >>
    /\ expr_result.status = "ok"
    /\ evaluate_expression(expr_result.value[1]) = -1

\* C4: a Slash between two factors is consumed as a multiplicative operator and
\* gives a BinaryOperation with the operator Divide, folded to the left with '*'.
C4_SlashDivides ==
    (expr_result.called /\ HasSlash /\ RefExpression(SpelledSeq(tokens)) # Invalid) =>
        /\ expr_result.status = "ok"
        /\ expr_result.value = << RefExpression(SpelledSeq(tokens)) >>

====
